---------------------------- MODULE Spec2Model ----------------------------
(***************************************************************************)
(* A model of the tool-call orchestration loop of main.py (main,           *)
(* call_function, the four tool implementations and _safe_resolve) and of  *)
(* functions/get_files_info.py.                                            *)
(*                                                                         *)
(* Path strings are sequences of one-character strings, so that            *)
(* str.startswith, os.path.join and os.path.normpath are computed on       *)
(* characters as Python computes them.                                     *)
(***************************************************************************)
EXTENDS Naturals, Sequences, FiniteSets, TLC

VARIABLES
    cwd,          \* os.getcwd() of the process
    fs,           \* the filesystem: absolute normalized path -> node
    effects,      \* every filesystem access and process spawn so far
    pathArg,      \* SpecPath: the path argument under test
    resolved,     \* SpecPath: outcome of _safe_resolve(pathArg, "./calculator")
    info,         \* SpecPath: outcome of get_files_info(pathArg)
    ncalls,       \* SpecTools: number of call_function invocations so far
    lastCall,     \* SpecTools: the function_call_part last given to call_function
    lastRun,      \* SpecTools: what that call_function did (invocation, returned Content)
    pc,           \* main: position in the loop
    i,            \* main: the for-loop index
    messages,     \* main: the transcript
    response,     \* main: the response of the current pass
    ci,           \* main: candidates of the current response already processed
    k,            \* main: function_calls of the current response already processed
    output,       \* main: outcome messages printed so far
    nreq,         \* main: number of generate_content requests issued
    hist,         \* main: history of the invocation (what the backend did; per-pass marks)
    argv,         \* SpecEntry: sys.argv[1:]
    environ,      \* SpecEntry: the names set in os.environ once load_dotenv() has run
    genai,        \* SpecEntry: whether google.genai could be imported
    status        \* SpecEntry: <<"exit", n>> once the process ended before its loop

vars == <<cwd, fs, effects, pathArg, resolved, info, ncalls, lastCall, lastRun,
          pc, i, messages, response, ci, k, output, nreq, hist,
          argv, environ, genai, status>>

entryVars == <<argv, environ, genai, status>>

pathVars == <<pathArg, resolved, info>>
toolVars == <<ncalls, lastCall, lastRun>>
mainVars == <<pc, i, messages, response, ci, k, output, nreq, hist>>

-----------------------------------------------------------------------------
(* Bounds of the model *)

\* Longest path argument, in segments, that SpecPath draws.
MaxSegs == 3
\* Number of call_function invocations in a run of SpecTools.
MaxCalls == 2
\* Number of leading passes in which the backend may answer with any
\* response and a subprocess may end in any way; later passes repeat the
\* last response (or end the run) and the last way a subprocess ended.
MaxVaried == 1

-----------------------------------------------------------------------------
(* Character strings *)

SEP == "/"
NONE == <<"None">>

calculator == <<"c","a","l","c","u","l","a","t","o","r">>
calculator2 == calculator \o <<"2">>
DOT == <<".">>
DOTDOT == <<".",".">>
EMPTY == <<>>

\* str.startswith
StartsWith(s, prefix) ==
    /\ Len(prefix) <= Len(s)
    /\ SubSeq(s, 1, Len(prefix)) = prefix

\* str.split("/")
RECURSIVE Split(_)
Split(s) ==
    IF \A n \in 1..Len(s) : s[n] # SEP
    THEN <<s>>
    ELSE LET n == CHOOSE m \in 1..Len(s) :
                      s[m] = SEP /\ \A q \in 1..(m-1) : s[q] # SEP
         IN  <<SubSeq(s, 1, n-1)>> \o Split(SubSeq(s, n+1, Len(s)))

\* "/".join(comps)
RECURSIVE Join(_)
Join(comps) ==
    IF comps = <<>> THEN <<>>
    ELSE IF Len(comps) = 1 THEN comps[1]
    ELSE comps[1] \o <<SEP>> \o Join(Tail(comps))

\* posixpath.join(a, b)
PathJoin(a, b) ==
    IF StartsWith(b, <<SEP>>) THEN b
    ELSE IF a = <<>> \/ a[Len(a)] = SEP THEN a \o b
    ELSE a \o <<SEP>> \o b

\* posixpath.normpath: the loop over the components
RECURSIVE NormComps(_, _, _)
NormComps(comps, acc, initialSlashes) ==
    IF comps = <<>> THEN acc
    ELSE LET comp == Head(comps) IN
         IF comp = EMPTY \/ comp = DOT
         THEN NormComps(Tail(comps), acc, initialSlashes)
         ELSE IF \/ comp # DOTDOT
                 \/ (initialSlashes = 0 /\ acc = <<>>)
                 \/ (acc # <<>> /\ acc[Len(acc)] = DOTDOT)
         THEN NormComps(Tail(comps), Append(acc, comp), initialSlashes)
         ELSE IF acc # <<>>
         THEN NormComps(Tail(comps), SubSeq(acc, 1, Len(acc)-1), initialSlashes)
         ELSE NormComps(Tail(comps), acc, initialSlashes)

\* posixpath.normpath: the count of leading slashes it keeps
InitialSlashes(path) ==
    IF ~StartsWith(path, <<SEP>>) THEN 0
    ELSE IF StartsWith(path, <<SEP, SEP>>)
            /\ ~StartsWith(path, <<SEP, SEP, SEP>>) THEN 2
    ELSE 1

\* posixpath.normpath: the leading slashes put back, "." for an empty result
Rooted(initialSlashes, joined) ==
    IF initialSlashes = 2 THEN <<SEP, SEP>> \o joined
    ELSE IF initialSlashes = 1 THEN <<SEP>> \o joined
    ELSE IF joined = <<>> THEN DOT
    ELSE joined

\* posixpath.normpath
NormPath(path) ==
    IF path = <<>> THEN DOT
    ELSE Rooted(InitialSlashes(path),
                Join(NormComps(Split(path), <<>>, InitialSlashes(path))))

\* posixpath.abspath, in a process whose working directory is dir
AbsPath(path, dir) ==
    IF StartsWith(path, <<SEP>>) THEN NormPath(path)
    ELSE NormPath(PathJoin(dir, path))

\* posixpath.dirname
DirName(path) ==
    LET idx == {n \in 1..Len(path) : path[n] = SEP}
        last == IF idx = {} THEN 0 ELSE CHOOSE n \in idx : \A m \in idx : m <= n
        head == SubSeq(path, 1, last)
    IN  IF head # <<>> /\ \E n \in 1..Len(head) : head[n] # SEP
        THEN LET strip[n \in 0..Len(head)] ==
                     IF n = 0 THEN 0
                     ELSE IF head[n] # SEP THEN n ELSE strip[n-1]
             IN  SubSeq(head, 1, strip[Len(head)])
        ELSE head


-----------------------------------------------------------------------------
(* The path sandbox *)

\* The working directory that call_function forces and the tools default to.
WORKING_DIRECTORY == <<".", SEP>> \o calculator

\* InsideRoot with the separator forgotten: a plain string-prefix test.
InsideRoot_NoSep(target, base_abs) ==
    target = base_abs \/ StartsWith(target, base_abs)

\* The accepting condition of _safe_resolve.
InsideRoot(target, base_abs) ==
    target = base_abs \/ StartsWith(target, base_abs \o <<SEP>>)

\* _safe_resolve(path, base) in a process whose working directory is dir:
\* <<"ok", target>>, or the exception raised. A path that is not a string
\* (None) makes os.path.join raise TypeError.
Resolved(target, base_abs) ==
    IF ~InsideRoot(target, base_abs)
    THEN <<"ValueError", "Path escapes working directory">>
    ELSE <<"ok", target>>

ResolveUnder(path, base_abs, dir) ==
    Resolved(AbsPath(PathJoin(base_abs, path), dir), base_abs)

_safe_resolve(path, base, dir) ==
    IF path = NONE THEN <<"TypeError", "expected str, bytes or os.PathLike object">>
    ELSE ResolveUnder(path, AbsPath(base, dir), dir)

-----------------------------------------------------------------------------
(* The filesystem *)

\* A node is <<"dir">> or <<"file", content>>; fs maps the absolute
\* normalized paths that exist to their nodes.
Exists(f, p) == p \in DOMAIN f
IsFile(f, p) == Exists(f, p) /\ f[p][1] = "file"
IsDir(f, p) == Exists(f, p) /\ f[p][1] = "dir"

\* Python's code points of the characters the model's names use.
Ord(c) ==
    CASE c = "." -> 46 [] c = "/" -> 47 [] c = "2" -> 50 [] c = "a" -> 97
      [] c = "c" -> 99 [] c = "h" -> 104 [] c = "i" -> 105 [] c = "l" -> 108
      [] c = "o" -> 111 [] c = "r" -> 114 [] c = "s" -> 115 [] c = "t" -> 116
      [] c = "u" -> 117 [] c = "w" -> 119 [] c = "x" -> 120

\* Python's str < str
RECURSIVE StrLess(_, _)
StrLess(a, b) ==
    IF b = <<>> THEN FALSE
    ELSE IF a = <<>> THEN TRUE
    ELSE IF a[1] # b[1] THEN Ord(a[1]) < Ord(b[1])
    ELSE StrLess(Tail(a), Tail(b))

\* sorted(names, reverse=True)
RECURSIVE Sorted_Descending(_)
Sorted_Descending(names) ==
    IF names = {} THEN <<>>
    ELSE LET most == CHOOSE n \in names : \A m \in names \ {n} : StrLess(m, n)
         IN  <<most>> \o Sorted_Descending(names \ {most})

\* sorted(names)
RECURSIVE Sorted(_)
Sorted(names) ==
    IF names = {} THEN <<>>
    ELSE LET least == CHOOSE n \in names : \A m \in names \ {n} : StrLess(n, m)
         IN  <<least>> \o Sorted(names \ {least})

\* os.path.basename of a normalized path
BaseName(p) == LET comps == Split(p) IN comps[Len(comps)]

\* os.listdir(target): the names of the direct children
ListDir(f, target) ==
    {BaseName(p) : p \in {q \in DOMAIN f : q # target /\ DirName(q) = target}}

\* The ancestors that os.makedirs(d, exist_ok=True) has to create, or
\* <<"error">> when the search for an existing ancestor ends at a file.
RECURSIVE MissingDirs(_, _)
MissingDirs(f, d) ==
    IF Exists(f, d) THEN {}
    ELSE IF DirName(d) = d THEN {d}
    ELSE {d} \cup MissingDirs(f, DirName(d))

RECURSIVE NearestExisting(_, _)
NearestExisting(f, d) ==
    IF Exists(f, d) \/ DirName(d) = d THEN d ELSE NearestExisting(f, DirName(d))

-----------------------------------------------------------------------------
(* The tool implementations.  Each yields the string it returns (as a      *)
(* tagged tuple), the filesystem it leaves and the accesses it made.       *)

ToolReturn(result, f, eff) == [result |-> result, fs |-> f, effects |-> eff]

\* f"Error: {e}" for the exception _safe_resolve raised
ResolveError(r) == <<"Error: ", r[2]>>

\* The entries _get_files_info builds for the sorted names of target.
FileEntries(f, target) ==
    LET names == Sorted(ListDir(f, target))
    IN  [n \in 1..Len(names) |->
            LET p == PathJoin(target, names[n])
            IN  IF IsFile(f, p) THEN <<names[n], "file", Len(f[p][2])>>
                ELSE <<names[n], "dir">>]

_get_files_info(directory, working_directory, dir, f) ==
    LET r == _safe_resolve(directory, working_directory, dir)
        target == r[2]
    IN  IF r[1] # "ok" THEN ToolReturn(ResolveError(r), f, {})
        ELSE IF ~Exists(f, target)
        THEN ToolReturn(<<"Error: directory not found: ", directory>>, f, {})
        ELSE IF ~IsDir(f, target)
        THEN ToolReturn(<<"Error listing directory: ", "NotADirectoryError">>, f,
                        {<<"listdir", target>>})
        ELSE IF FileEntries(f, target) = <<>>
        THEN ToolReturn(<<"(empty)">>, f, {<<"listdir", target>>})
        ELSE ToolReturn(<<"entries", FileEntries(f, target)>>, f, {<<"listdir", target>>})

\* What f.read() gives for a file opened with open(target, "r"): in text
\* mode with the default newline=None, "\r\n" and "\r" are read as "\n".
RECURSIVE UniversalNewlines(_)
UniversalNewlines(text) ==
    IF text = <<>> THEN <<>>
    ELSE IF text[1] # "\r" THEN <<text[1]>> \o UniversalNewlines(Tail(text))
    ELSE IF Len(text) >= 2 /\ text[2] = "\n"
    THEN <<"\n">> \o UniversalNewlines(SubSeq(text, 3, Len(text)))
    ELSE <<"\n">> \o UniversalNewlines(Tail(text))

_get_file_content(file_path, working_directory, dir, f) ==
    LET r == _safe_resolve(file_path, working_directory, dir)
        target == r[2]
    IN  IF r[1] # "ok" THEN ToolReturn(ResolveError(r), f, {})
        ELSE IF ~Exists(f, target) \/ ~IsFile(f, target)
        THEN ToolReturn(<<"Error: file not found: ", file_path>>, f, {})
        ELSE ToolReturn(<<"text", UniversalNewlines(f[target][2])>>, f, {<<"read", target>>})

\* content or ""
OrEmpty(content) == IF content = NONE THEN <<>> ELSE content

_write_file(file_path, content, working_directory, dir, f) ==
    LET r == _safe_resolve(file_path, working_directory, dir)
        target == r[2]
        parent == DirName(target)
        missing == MissingDirs(f, parent)
        made == [p \in DOMAIN f \cup missing |-> IF p \in missing THEN <<"dir">> ELSE f[p]]
        mkdirs == {<<"mkdir", p>> : p \in missing}
        written == [p \in DOMAIN made \cup {target} |->
                       IF p = target THEN <<"file", OrEmpty(content)>> ELSE made[p]]
    IN  IF r[1] # "ok" THEN ToolReturn(ResolveError(r), f, {})
        ELSE IF ~IsDir(f, NearestExisting(f, parent))
        THEN ToolReturn(<<"Error writing file: ", "makedirs">>, f, {})
        ELSE IF IsDir(made, target)
        THEN ToolReturn(<<"Error writing file: ", "IsADirectoryError">>, made, mkdirs)
        ELSE ToolReturn(<<"Wrote ", Len(OrEmpty(content)), " bytes to ", file_path>>,
                        written, mkdirs \cup {<<"write", target>>})

\* What subprocess.run can end in: the child exits, the 30 s timeout
\* expires, or the launch fails.
RunOutcomes == {"exit", "timeout", "oserror"}

\* Only a run_python_file call has a subprocess whose end is open.
OutcomesOf(part) == IF part.name = "run_python_file" THEN RunOutcomes ELSE {"exit"}

\* _run_python_file without the test that the target is an existing file.
_run_python_file_Unchecked(file_path, args, working_directory, dir, f, outcome) ==
    LET r == _safe_resolve(file_path, working_directory, dir)
    IN  IF r[1] # "ok" THEN ToolReturn(ResolveError(r), f, {})
        ELSE ToolReturn(<<"Exit ", "STDOUT", "STDERR">>, f,
                        {<<"exec", r[2], AbsPath(working_directory, dir)>>})

\* The child process's own actions are outside the model: it leaves fs alone.
_run_python_file(file_path, args, working_directory, dir, f, outcome) ==
    LET r == _safe_resolve(file_path, working_directory, dir)
        target == r[2]
        spawn == {<<"exec", target, AbsPath(working_directory, dir)>>}
    IN  IF r[1] # "ok" THEN ToolReturn(ResolveError(r), f, {})
        ELSE IF ~Exists(f, target) \/ ~IsFile(f, target)
        THEN ToolReturn(<<"Error: file not found: ", file_path>>, f, {})
        ELSE IF outcome = "exit"
        THEN ToolReturn(<<"Exit ", "STDOUT", "STDERR">>, f, spawn)
        ELSE IF outcome = "timeout"
        THEN ToolReturn(<<"Error: execution timed out">>, f, spawn)
        ELSE ToolReturn(<<"Error running file: ", "OSError">>, f, spawn)

-----------------------------------------------------------------------------
(* call_function *)

\* The keys of the dispatch table.
dispatch == {"get_files_info", "get_file_content", "run_python_file", "write_file"}

\* The parameters of each tool's signature, and those without a default.
Params(name) ==
    CASE name = "get_files_info" -> {"directory", "working_directory"}
      [] name = "get_file_content" -> {"file_path", "working_directory"}
      [] name = "write_file" -> {"file_path", "content", "working_directory"}
      [] name = "run_python_file" -> {"file_path", "args", "working_directory"}

Required(name) ==
    CASE name = "get_files_info" -> {}
      [] name = "get_file_content" -> {"file_path"}
      [] name = "write_file" -> {"file_path", "content"}
      [] name = "run_python_file" -> {"file_path"}

\* An argument dict is the set of its <<key, value>> items.
Keys(args) == {item[1] : item \in args}
Get(args, key) == (CHOOSE item \in args : item[1] = key)[2]

\* ForceWorkingDirectory as dict.setdefault would do it: a value the
\* caller supplied stays.
ForceWorkingDirectory_SetDefault(args) ==
    IF "working_directory" \in Keys(args) THEN args
    ELSE args \cup {<<"working_directory", WORKING_DIRECTORY>>}

\* function_args = dict(args or {}); function_args["working_directory"] = "./calculator"
ForceWorkingDirectory(args) ==
    {item \in args : item[1] # "working_directory"}
        \cup {<<"working_directory", WORKING_DIRECTORY>>}

\* dispatch[function_name](**function_args), once the arguments bind
Invoke(name, a, dir, f, outcome) ==
    CASE name = "get_files_info" ->
            _get_files_info(IF "directory" \in Keys(a) THEN Get(a, "directory") ELSE DOT,
                            Get(a, "working_directory"), dir, f)
      [] name = "get_file_content" ->
            _get_file_content(Get(a, "file_path"), Get(a, "working_directory"), dir, f)
      [] name = "write_file" ->
            _write_file(Get(a, "file_path"), Get(a, "content"),
                        Get(a, "working_directory"), dir, f)
      [] name = "run_python_file" ->
            _run_python_file(Get(a, "file_path"),
                             IF "args" \in Keys(a) THEN Get(a, "args") ELSE <<>>,
                             Get(a, "working_directory"), dir, f, outcome)

\* types.Content(role="tool", parts=[Part.from_function_response(name, response)])
ToolContent(name, fr) == [role |-> "tool", name |-> name, response |-> fr]

\* The arguments bind to the tool's parameters: no name the signature
\* lacks, none without a default left out.
Binds(name, args) ==
    /\ Keys(args) \subseteq Params(name)
    /\ Required(name) \subseteq Keys(args)

\* call_function without its try/except: the TypeError of a call that does
\* not bind leaves call_function, which returns no Content.
call_function_NoTry(part, dir, f, outcome) ==
    IF part.name \notin dispatch
    THEN [content |-> ToolContent(part.name,
                                  <<"error", <<"Unknown function: ", part.name>>>>),
          invoked |-> NONE, fs |-> f, effects |-> {},
          args |-> part.args]
    ELSE IF ~Binds(part.name, ForceWorkingDirectory(part.args))
    THEN [content |-> [role |-> "raise", name |-> part.name, response |-> <<"TypeError">>],
          invoked |-> NONE, fs |-> f, effects |-> {},
          args |-> part.args]
    ELSE [content |-> ToolContent(part.name, <<"result", <<"None">>>>),
          invoked |-> <<part.name, ForceWorkingDirectory(part.args)>>,
          fs |-> f, effects |-> {}, args |-> part.args]

\* call_function without the "not in dispatch" test: the lookup of an
\* undeclared name fails inside the try and comes back as a result.
call_function_NoLookup(part, dir, f, outcome) ==
    IF part.name \notin dispatch
    THEN [content |-> ToolContent(part.name,
                                  <<"result", <<"Error during execution: ", "KeyError">>>>),
          invoked |-> NONE, fs |-> f, effects |-> {},
          args |-> part.args]
    ELSE [content |-> ToolContent(part.name, <<"result", <<"None">>>>),
          invoked |-> <<part.name, ForceWorkingDirectory(part.args)>>,
          fs |-> f, effects |-> {}, args |-> part.args]

\* call_function working on the part's own args in place of a copy:
\* function_args = part.args.
call_function_InPlace(part, dir, f, outcome) ==
    LET function_args == ForceWorkingDirectory(part.args)
    IN  IF part.name \notin dispatch
        THEN [content |-> ToolContent(part.name,
                                      <<"error", <<"Unknown function: ", part.name>>>>),
              invoked |-> NONE, fs |-> f, effects |-> {}, args |-> function_args]
        ELSE IF ~Binds(part.name, function_args)
        THEN [content |-> ToolContent(part.name,
                                      <<"result", <<"Error during execution: ", "TypeError">>>>),
              invoked |-> NONE, fs |-> f, effects |-> {}, args |-> function_args]
        ELSE [content |-> ToolContent(part.name, <<"result", <<"None">>>>),
              invoked |-> <<part.name, function_args>>,
              fs |-> f, effects |-> {}, args |-> function_args]

\* call_function(function_call_part): the Content it returns, the tool
\* invocation it made (NONE when it made none), the filesystem afterwards,
\* the accesses made, and the part's args mapping as the call leaves it
\* (function_args is a copy, dict(...), so the part keeps its own).  A part without a name has the name "None", as
\* the f-string of the error message prints it; a part whose args is None
\* has no items, as dict(args or {}) makes of it.
call_function(part, dir, f, outcome) ==
    LET function_name == part.name
        function_args == ForceWorkingDirectory(part.args)
    IN  IF function_name \notin dispatch
        THEN [content |-> ToolContent(function_name,
                                      <<"error", <<"Unknown function: ", function_name>>>>),
              invoked |-> NONE, fs |-> f, effects |-> {},
          args |-> part.args]
        ELSE IF ~Binds(function_name, function_args)
        THEN [content |-> ToolContent(function_name,
                                      <<"result", <<"Error during execution: ", "TypeError">>>>),
              invoked |-> NONE, fs |-> f, effects |-> {},
          args |-> part.args]
        ELSE LET ret == Invoke(function_name, function_args, dir, f, outcome)
             IN  [content |-> ToolContent(function_name, <<"result", ret.result>>),
                  invoked |-> <<function_name, function_args>>,
                  fs |-> ret.fs, effects |-> ret.effects, args |-> part.args]

-----------------------------------------------------------------------------
(* functions/get_files_info.py *)

\* os.path.relpath(path, start), both absolute and normalized
RelPath(path, start) ==
    LET pc_ == SelectSeq(Split(path), LAMBDA c : c # EMPTY)
        sc == SelectSeq(Split(start), LAMBDA c : c # EMPTY)
        same == {n \in 0..Len(sc) : n <= Len(pc_) /\ SubSeq(pc_, 1, n) = SubSeq(sc, 1, n)}
        common == CHOOSE n \in same : \A m \in same : m <= n
        ups == [n \in 1..(Len(sc) - common) |-> DOTDOT]
        rel == ups \o SubSeq(pc_, common + 1, Len(pc_))
    IN  IF rel = <<>> THEN DOT ELSE Join(rel)

\* The guard of get_files_info: "if not target.startswith(base)".
WithinBase(target, base) == StartsWith(target, base)

\* get_files_info(directory) run in a process whose working directory is
\* dir: the dict returned (or the exception that escapes) and the accesses
\* made.  os.scandir yields in no fixed order: the files are a set.
get_files_info(directory, dir, f) ==
    LET base == AbsPath(dir, dir)
        arg == IF directory = NONE \/ directory = <<>> THEN DOT ELSE directory
        target == AbsPath(PathJoin(base, arg), dir)
        files == {PathJoin(target, n) : n \in ListDir(f, target)}
    IN  IF ~WithinBase(target, base)
        THEN [result |-> <<"error", "Requested directory is outside the working directory.">>,
              effects |-> {}]
        ELSE IF ~Exists(f, target)
        THEN [result |-> <<"error", "Directory not found.">>, effects |-> {}]
        ELSE IF ~IsDir(f, target)
        THEN [result |-> <<"raise", "NotADirectoryError">>, effects |-> {}]
        ELSE [result |-> <<"files", {<<RelPath(p, base), Len(f[p][2])>> :
                                       p \in {q \in files : IsFile(f, q)}}>>,
              effects |-> {<<"scandir", target>>}]

-----------------------------------------------------------------------------
(* The environment: working directories, filesystems, arguments *)

Str_w == <<"w">>
Str_x == <<"x">>
Str_a == <<"a">>
Str_hi == <<"h", "i">>
Str_s == <<"s">>

Abs(comps) == <<SEP>> \o Join(comps)

\* os.getcwd(): the directory holding ./calculator, or ./calculator itself.
CwdSet == {Abs(<<Str_w>>), Abs(<<Str_w, calculator>>)}

\* A filesystem in which ./calculator exists from either working directory,
\* each next to a sibling directory calculator2.
BaseFS ==
    LET dirs == {<<SEP>>, Abs(<<Str_w>>), Abs(<<Str_w, calculator>>),
                 Abs(<<Str_w, calculator2>>),
                 Abs(<<Str_w, calculator, calculator>>),
                 Abs(<<Str_w, calculator, calculator2>>),
                 Abs(<<Str_w, calculator, Str_w>>)}
        texts == {Abs(<<Str_w, Str_x>>), Abs(<<Str_w, calculator, Str_x>>),
                  Abs(<<Str_w, calculator, calculator, Str_x>>)}
        secrets == {Abs(<<Str_w, calculator2, Str_x>>),
                    Abs(<<Str_w, calculator, calculator2, Str_x>>)}
    IN  [p \in dirs \cup texts \cup secrets |->
            IF p \in dirs THEN <<"dir">>
            ELSE IF p \in texts THEN <<"file", Str_hi>> ELSE <<"file", Str_s>>]

\* The same without ./calculator/calculator (a working root yet to be made).
BareFS ==
    LET gone == {Abs(<<Str_w, calculator, calculator>>),
                 Abs(<<Str_w, calculator, calculator, Str_x>>)}
    IN  [p \in DOMAIN BaseFS \ gone |-> BaseFS[p]]

InitFS == {BaseFS, BareFS}

\* Path arguments: up to MaxSegs segments joined by "/", relative or
\* absolute, and None.
Segs == {EMPTY, DOT, DOTDOT, calculator, calculator2, Str_w, Str_x}

SegSeqs == UNION {[1..n -> Segs] : n \in 0..MaxSegs}

PathInputs == {Join(c) : c \in SegSeqs} \cup {<<SEP>> \o Join(c) : c \in SegSeqs} \cup {NONE}

-----------------------------------------------------------------------------
(* SpecPath: _safe_resolve and get_files_info applied to a drawn path *)

PathIdle == pathArg = NONE /\ resolved = NONE /\ info = NONE
ToolIdle == ncalls = 0 /\ lastCall = NONE /\ lastRun = NONE
MainIdle ==
    /\ pc = "idle" /\ i = 0 /\ messages = <<>> /\ response = NONE
    /\ ci = 0 /\ k = 0 /\ output = <<>> /\ nreq = 0 /\ hist = NONE
    /\ argv = <<>> /\ environ = {} /\ genai = FALSE /\ status = NONE

InitPath ==
    /\ cwd \in CwdSet
    /\ fs \in InitFS
    /\ effects = {}
    /\ pathArg \in PathInputs
    /\ resolved = NONE
    /\ info = NONE
    /\ ToolIdle
    /\ MainIdle

SafeResolve ==
    /\ resolved = NONE
    /\ resolved' = _safe_resolve(pathArg, WORKING_DIRECTORY, cwd)
    /\ UNCHANGED <<entryVars, cwd, fs, effects, pathArg, info, toolVars, mainVars>>

GetFilesInfo ==
    /\ info = NONE
    /\ LET r == get_files_info(pathArg, cwd, fs)
       IN  /\ info' = r.result
           /\ effects' = effects \cup r.effects
    /\ UNCHANGED <<entryVars, cwd, fs, pathArg, resolved, toolVars, mainVars>>

NextPath == SafeResolve \/ GetFilesInfo

SpecPath == InitPath /\ [][NextPath]_vars

-----------------------------------------------------------------------------
(* What a path denotes, component by component (the reference the claims   *)
(* about confinement are stated against).                                  *)

\* Follow the components from the directory whose components are stack.
RECURSIVE Walk(_, _)
Walk(comps, stack) ==
    IF comps = <<>> THEN stack
    ELSE IF Head(comps) = EMPTY \/ Head(comps) = DOT THEN Walk(Tail(comps), stack)
    ELSE IF Head(comps) = DOTDOT
    THEN Walk(Tail(comps), IF stack = <<>> THEN stack ELSE SubSeq(stack, 1, Len(stack) - 1))
    ELSE Walk(Tail(comps), Append(stack, Head(comps)))

CompsOf(abs) == SelectSeq(Split(abs), LAMBDA c : c # EMPTY)

\* The components of the directory that path denotes when taken from from.
Denoted(path, from) ==
    IF path # <<>> /\ path[1] = SEP THEN Walk(Split(path), <<>>)
    ELSE Walk(Split(path), CompsOf(from))

\* POSIX keeps exactly two leading slashes apart from one.
DoubleSlash(path) ==
    /\ Len(path) >= 2 /\ path[1] = SEP /\ path[2] = SEP
    /\ ~(Len(path) >= 3 /\ path[3] = SEP)

IsCompPrefix(p, s) == Len(p) <= Len(s) /\ \A n \in 1..Len(p) : s[n] = p[n]

\* The working root of main.py's tools in a process run from dir.
RootOf(dir) == dir \o <<SEP>> \o calculator

-----------------------------------------------------------------------------
(* SpecTools: call_function applied to a sequence of arbitrary calls *)

NoArgs == {}

FunctionCall(name, args) == [name |-> name, args |-> args]

\* Paths a model may send: the root, a file in it, a directory in it (empty
\* from one working directory, absent from the other), a file in a
\* directory yet to be made, the sibling calculator2 by traversal, an
\* absolute path (inside the root from one working directory, outside from
\* the other), and null.
ToolPaths ==
    {<<>>, Str_x, Str_w, Join(<<Str_a, Str_x>>), Join(<<DOTDOT, calculator2, Str_x>>),
     Abs(<<Str_w, calculator, Str_x>>), NONE}

\* A "working_directory" the model may slip into its arguments, or none.
Overrides == {NoArgs, {<<"working_directory", <<SEP>>>>}}

Contents == {NONE, Str_hi}

FunctionCalls ==
    {FunctionCall("get_files_info", a \cup o) :
        a \in {NoArgs} \cup {{<<"directory", p>>} : p \in ToolPaths}, o \in Overrides}
    \cup {FunctionCall("get_file_content", {<<"file_path", p>>} \cup o) :
        p \in ToolPaths, o \in Overrides}
    \cup {FunctionCall("write_file", {<<"file_path", p>>, <<"content", c>>} \cup o) :
        p \in ToolPaths, c \in Contents, o \in Overrides}
    \cup {FunctionCall("run_python_file", {<<"file_path", p>>} \cup o) :
        p \in ToolPaths, o \in Overrides}
    \cup {FunctionCall("run_python_file", {<<"file_path", Str_x>>, <<"args", Str_x>>}),
          FunctionCall("write_file", {<<"file_path", Str_x>>}),
          FunctionCall("get_file_content", NoArgs),
          FunctionCall("get_files_info", {<<"bogus", Str_x>>}),
          FunctionCall("delete_file", {<<"file_path", Str_x>>}),
          FunctionCall("None", NoArgs)}

InitTools ==
    /\ cwd \in CwdSet
    /\ fs \in InitFS
    /\ Exists(fs, cwd)
    /\ effects = {}
    /\ PathIdle
    /\ ToolIdle
    /\ MainIdle

\* One call_function(part) with a part of the model's choosing; lastCall
\* is the part as the call leaves it, lastRun.given the args it came with.
CallFunction ==
    /\ ncalls < MaxCalls
    /\ \E part \in FunctionCalls : \E outcome \in OutcomesOf(part) :
          \E run \in {call_function(part, cwd, fs, outcome)} :
              /\ lastCall' = [part EXCEPT !.args = run.args]
              /\ lastRun' = [content |-> run.content, invoked |-> run.invoked,
                             effects |-> run.effects, mutated |-> (run.fs # fs),
                             given |-> part.args]
              /\ fs' = run.fs
              /\ effects' = effects \cup run.effects
    /\ ncalls' = ncalls + 1
    /\ UNCHANGED <<entryVars, cwd, pathVars, mainVars>>

NextTools == CallFunction

SpecTools == InitTools /\ [][NextTools]_vars

-----------------------------------------------------------------------------
(* SpecRoundTrip: a write_file call and then a get_file_content call on    *)
(* the same drawn path                                                     *)

Str_cr == <<"h", "\r", "\n", "\r">>

\* The content a write_file call may carry: none at all, null, "", text,
\* text with carriage returns.
WriteContents ==
    {NoArgs} \cup {{<<"content", c>>} : c \in {NONE, <<>>, Str_hi, Str_cr}}

InitRoundTrip ==
    /\ cwd \in CwdSet
    /\ fs \in InitFS
    /\ Exists(fs, cwd)
    /\ effects = {}
    /\ pathArg \in PathInputs \ {NONE}
    /\ resolved = NONE
    /\ info = NONE
    /\ ToolIdle
    /\ MainIdle

\* call_function on a write_file call for the drawn path.
WriteFile ==
    /\ ncalls = 0
    /\ \E c \in WriteContents :
          \E part \in {FunctionCall("write_file", {<<"file_path", pathArg>>} \cup c)} :
          \E run \in {call_function(part, cwd, fs, "exit")} :
              /\ lastCall' = part
              /\ lastRun' = [content |-> run.content, invoked |-> run.invoked,
                             effects |-> run.effects, mutated |-> (run.fs # fs)]
              /\ fs' = run.fs
              /\ effects' = effects \cup run.effects
    /\ ncalls' = 1
    /\ UNCHANGED <<entryVars, cwd, pathVars, mainVars>>

\* call_function on a get_file_content call for the same path.
ReadFile ==
    /\ ncalls = 1
    /\ \E part \in {FunctionCall("get_file_content", {<<"file_path", pathArg>>})} :
          \E run \in {call_function(part, cwd, fs, "exit")} :
              /\ info' = run.content.response
              /\ fs' = run.fs
              /\ effects' = effects \cup run.effects
    /\ ncalls' = 2
    /\ UNCHANGED <<entryVars, cwd, pathArg, resolved, lastCall, lastRun, mainVars>>

NextRoundTrip == WriteFile \/ ReadFile

SpecRoundTrip == InitRoundTrip /\ [][NextRoundTrip]_vars

-----------------------------------------------------------------------------
(* Spec: main(), the orchestration loop, against an arbitrary backend *)

max_iters == 20

\* A truthy Python string: neither None nor "".
Truthy(text) == text # NONE /\ text # <<>>

\* A transcript turn: types.Content with one part.
Content(role, name, payload) == [role |-> role, name |-> name, response |-> payload]

\* messages = [types.Content(role="user", parts=[types.Part(text=user_prompt)])]
UserPrompt == Content("user", "", <<"text", Str_hi>>)

\* A candidate of a response: content holds its Content, or nothing when
\* the candidate's content is None.
ModelTurn == [content |-> <<Content("model", "", <<"text", Str_hi>>)>>]
NoContent == [content |-> <<>>]

\* The response variable before the first request.
NoResponse == [text |-> NONE, candidates |-> <<>>, function_calls |-> <<>>]

\* The calls the backend asks for in the loop: a write that succeeds, a
\* read of what it wrote, a run, an undeclared tool, a write that lacks
\* its content, a listing with an argument the tool does not have, and a
\* read aimed at the sibling with a working_directory of the model's own.
P_write == FunctionCall("write_file", {<<"file_path", Join(<<Str_a, Str_x>>)>>, <<"content", Str_hi>>})
P_read == FunctionCall("get_file_content", {<<"file_path", Join(<<Str_a, Str_x>>)>>})
P_run == FunctionCall("run_python_file", {<<"file_path", Str_x>>})
P_unknown == FunctionCall("delete_file", {<<"file_path", Str_x>>})
P_bad == FunctionCall("write_file", {<<"file_path", Str_x>>})
P_extra == FunctionCall("get_files_info", {<<"bogus", Str_x>>})
P_escape == FunctionCall("get_file_content",
                         {<<"file_path", Join(<<DOTDOT, calculator2, Str_x>>)>>,
                          <<"working_directory", <<SEP>>>>})

CallLists ==
    {<<>>, <<P_write>>, <<P_run>>, <<P_unknown>>, <<P_bad>>, <<P_extra>>, <<P_escape>>,
     <<P_unknown, P_write>>, <<P_write, P_read>>}

CandidateLists == {<<>>, <<ModelTurn>>, <<NoContent, ModelTurn>>}

\* What generate_content can return: text or none, any candidates, any calls.
Responses ==
    [text : {NONE, Str_hi}, candidates : CandidateLists, function_calls : CallLists]

\* FinalAnswer without its guard: any final text ends the loop.
FinalAnswer_TextOnly(r) == Truthy(r.text)

\* The test that ends the loop with the final answer:
\* "if final_text and not (function_calls or candidates)".
FinalAnswer(r) ==
    Truthy(r.text) /\ ~(r.function_calls # <<>> \/ r.candidates # <<>>)

\* Position leaving the loop over the calls one call early.
Position_SkipLast(r, c, n) ==
    IF c < Len(r.candidates) THEN "candidates"
    ELSE IF n + 1 < Len(r.function_calls) THEN "calls"
    ELSE "final"

\* Where the pass goes next: the candidates left, then the calls left, then
\* the test for the final answer.
Position(r, c, n) ==
    IF c < Len(r.candidates) THEN "candidates"
    ELSE IF n < Len(r.function_calls) THEN "calls"
    ELSE "final"

ErrorNotice == <<"Error calling generate_content">>
FinalNotice(text) == <<"Final response:", text>>
ExhaustedNotice == <<"No final textual response after max iterations.">>

\* The history before the first request.
NoHistory ==
    [raised |-> FALSE, textNoCalls |-> FALSE, sent |-> <<>>,
     passStart |-> 1, runs |-> <<>>, outcome |-> "exit"]

\* The state in which main() enters its loop for the prompt "hi".
Init ==
    /\ cwd \in CwdSet
    /\ fs = BaseFS
    /\ effects = {}
    /\ PathIdle
    /\ ToolIdle
    /\ pc = "request"
    /\ i = 0
    /\ messages = <<UserPrompt>>
    /\ response = NoResponse
    /\ ci = 0
    /\ k = 0
    /\ output = <<>>
    /\ nreq = 0
    /\ hist = NoHistory
    /\ argv = <<Str_hi>>
    /\ environ = {"GEMINI_API_KEY"}
    /\ genai = FALSE
    /\ status = NONE

\* client.models.generate_content(...) returns a response.
GenerateContent ==
    /\ pc = "request"
    /\ i < max_iters
    /\ \E r \in Responses :
          /\ i < MaxVaried \/ r = response \/ FinalAnswer(r)
          /\ response' = r
          /\ pc' = Position(r, 0, 0)
          /\ hist' = [hist EXCEPT
                         !.textNoCalls = @ \/ (Truthy(r.text) /\ r.function_calls = <<>>),
                         !.sent = messages,
                         !.passStart = Len(messages),
                         !.runs = <<>>]
    /\ ci' = 0
    /\ k' = 0
    /\ nreq' = nreq + 1
    /\ UNCHANGED <<entryVars, cwd, fs, effects, pathVars, toolVars, i, messages, output>>

\* GenerateContentRaises with continue in place of break: the request is
\* retried in the next pass.
GenerateContentRaises_Continue ==
    /\ pc = "request"
    /\ i < max_iters
    /\ nreq' = nreq + 1
    /\ output' = Append(output, ErrorNotice)
    /\ i' = i + 1
    /\ hist' = [hist EXCEPT !.raised = TRUE, !.sent = messages]
    /\ UNCHANGED <<entryVars, cwd, fs, effects, pathVars, toolVars, pc, messages, response, ci, k>>

\* client.models.generate_content(...) raises: the error is printed and
\* the loop is left by break.
GenerateContentRaises ==
    /\ pc = "request"
    /\ i < max_iters
    /\ nreq' = nreq + 1
    /\ output' = Append(output, ErrorNotice)
    /\ pc' = "done"
    /\ hist' = [hist EXCEPT !.raised = TRUE, !.sent = messages]
    /\ UNCHANGED <<entryVars, cwd, fs, effects, pathVars, toolVars, i, messages, response, ci, k>>

\* AppendCandidate with messages.insert(0, ...) in place of append.
AppendCandidate_Insert ==
    /\ pc = "candidates"
    /\ LET cand_content == response.candidates[ci + 1].content
       IN  messages' = IF cand_content # <<>> THEN <<cand_content[1]>> \o messages
                       ELSE messages
    /\ ci' = ci + 1
    /\ pc' = Position(response, ci + 1, k)
    /\ UNCHANGED <<entryVars, cwd, fs, effects, pathVars, toolVars, i, response, k, output, nreq, hist>>

\* One turn of "for cand in candidates".
AppendCandidate ==
    /\ pc = "candidates"
    /\ LET cand_content == response.candidates[ci + 1].content
       IN  messages' = IF cand_content # <<>> THEN Append(messages, cand_content[1])
                       ELSE messages
    /\ ci' = ci + 1
    /\ pc' = Position(response, ci + 1, k)
    /\ UNCHANGED <<entryVars, cwd, fs, effects, pathVars, toolVars, i, response, k, output, nreq, hist>>

\* HasFunctionResponse that takes only a {"result": ...} response.
HasFunctionResponse_ResultOnly(content) == content.response[1] = "result"

\* function_call_result.parts[0].function_response.response can be read.
HasFunctionResponse(content) == content.response[1] \in {"result", "error"}

\* What an exception that nothing catches leaves on the terminal.
Traceback == <<"Traceback (most recent call last):">>

\* ResultTurn keeping the role that call_function gave its Content.
ResultTurn_RoleKept(part, returned) ==
    Content(returned.role, part.name, returned.response)

\* fr = function_call_result.parts[0].function_response.response;
\* user_content = types.Content(role="user",
\*     parts=[types.Part.from_function_response(name=part.name, response=fr)])
ResultTurn(part, returned) ==
    Content("user", part.name, returned.response)

\* CallTool taking the calls last to first.
CallTool_Reversed ==
    /\ pc = "calls"
    /\ LET part == response.function_calls[Len(response.function_calls) - k]
       IN  \E outcome \in OutcomesOf(part) :
           \E run \in {call_function(part, cwd, fs, outcome)} :
              /\ i < MaxVaried \/ outcome = hist.outcome
              /\ fs' = run.fs
              /\ effects' = effects \cup run.effects
              /\ hist' = [hist EXCEPT
                             !.outcome = outcome,
                             !.runs = Append(@, [at |-> Len(messages),
                                                 invoked |-> run.invoked,
                                                 returned |-> run.content,
                                                 effects |-> run.effects])]
              /\ IF HasFunctionResponse(run.content)
                 THEN /\ messages' = Append(messages, ResultTurn(part, run.content))
                      /\ pc' = Position(response, ci, k + 1)
                      /\ output' = output
                 ELSE /\ messages' = messages
                      /\ pc' = "crashed"
                      /\ output' = Append(output, Traceback)
    /\ k' = k + 1
    /\ UNCHANGED <<entryVars, cwd, pathVars, toolVars, i, response, ci, nreq>>

\* One turn of "for part in function_calls": call_function, then the
\* role="user" Content made of its function_response is appended; a result
\* without a function_response raises RuntimeError, which nothing catches.
CallTool ==
    /\ pc = "calls"
    /\ LET part == response.function_calls[k + 1]
       IN  \E outcome \in OutcomesOf(part) :
           \E run \in {call_function(part, cwd, fs, outcome)} :
              /\ i < MaxVaried \/ outcome = hist.outcome
              /\ fs' = run.fs
              /\ effects' = effects \cup run.effects
              /\ hist' = [hist EXCEPT
                             !.outcome = outcome,
                             !.runs = Append(@, [at |-> Len(messages),
                                                 invoked |-> run.invoked,
                                                 returned |-> run.content,
                                                 effects |-> run.effects])]
              /\ IF HasFunctionResponse(run.content)
                 THEN /\ messages' = Append(messages, ResultTurn(part, run.content))
                      /\ pc' = Position(response, ci, k + 1)
                      /\ output' = output
                 ELSE /\ messages' = messages
                      /\ pc' = "crashed"
                      /\ output' = Append(output, Traceback)
    /\ k' = k + 1
    /\ UNCHANGED <<entryVars, cwd, pathVars, toolVars, i, response, ci, nreq>>

\* The final text is printed and the loop is left by break.
EmitFinal ==
    /\ pc = "final"
    /\ FinalAnswer(response)
    /\ output' = Append(output, FinalNotice(response.text))
    /\ pc' = "done"
    /\ UNCHANGED <<entryVars, cwd, fs, effects, pathVars, toolVars, i, messages, response, ci, k,
                   nreq, hist>>

\* Otherwise the for loop takes its next index.
NextIteration ==
    /\ pc = "final"
    /\ ~FinalAnswer(response)
    /\ i' = i + 1
    /\ pc' = "request"
    /\ UNCHANGED <<entryVars, cwd, fs, effects, pathVars, toolVars, messages, response, ci, k,
                   output, nreq, hist>>

\* The for loop ran out: its else branch prints the notice.
Exhausted ==
    /\ pc = "request"
    /\ i = max_iters
    /\ output' = Append(output, ExhaustedNotice)
    /\ pc' = "done"
    /\ UNCHANGED <<entryVars, cwd, fs, effects, pathVars, toolVars, i, messages, response, ci, k,
                   nreq, hist>>

Next ==
    \/ GenerateContent
    \/ GenerateContentRaises
    \/ AppendCandidate
    \/ CallTool
    \/ EmitFinal
    \/ NextIteration
    \/ Exhausted

Spec == Init /\ [][Next]_vars

-----------------------------------------------------------------------------
(* SpecEntry: main() from its start up to its first model request *)

\* Most command-line arguments drawn.
MaxArgs == 3

VERBOSE == <<"-", "-", "v", "e", "r", "b", "o", "s", "e">>

\* sys.argv[1:]: up to MaxArgs of a flag, and two words.
Argvs == UNION {[1..n -> {VERBOSE, Str_hi, Str_x}] : n \in 0..MaxArgs}

\* args: the arguments that do not start with "--".
PromptArgs(av) == SelectSeq(av, LAMBDA a : ~StartsWith(a, <<"-", "-">>))

\* " ".join(args)
RECURSIVE JoinSpace(_)
JoinSpace(words) ==
    IF words = <<>> THEN <<>>
    ELSE IF Len(words) = 1 THEN words[1]
    ELSE words[1] \o <<" ">> \o JoinSpace(Tail(words))

UsageNotice == <<"AI Code Assistant", "Usage: python main.py \"your prompt here\" [--verbose]">>

InitEntry ==
    /\ cwd \in CwdSet
    /\ fs = BaseFS
    /\ effects = {}
    /\ PathIdle
    /\ ToolIdle
    /\ pc = "start"
    /\ i = 0
    /\ messages = <<>>
    /\ response = NoResponse
    /\ ci = 0
    /\ k = 0
    /\ output = <<>>
    /\ nreq = 0
    /\ hist = NoHistory
    /\ argv \in Argvs
    /\ environ \in {{}, {"GEMINI_API_KEY"}}
    /\ genai \in BOOLEAN
    /\ status = NONE

\* "if not args": the usage text is printed and sys.exit(1) called.
ExitUsage ==
    /\ pc = "start"
    /\ PromptArgs(argv) = <<>>
    /\ output' = Append(output, UsageNotice)
    /\ status' = <<"exit", 1>>
    /\ pc' = "exited"
    /\ UNCHANGED <<cwd, fs, effects, pathVars, toolVars, i, messages, response, ci, k,
                   nreq, hist, argv, environ, genai>>

\* The client is made from os.environ.get("GEMINI_API_KEY"), set or not,
\* and the loop is entered with the prompt as the transcript.
EnterLoop ==
    /\ pc = "start"
    /\ PromptArgs(argv) # <<>>
    /\ messages' = <<Content("user", "", <<"text", JoinSpace(PromptArgs(argv))>>)>>
    /\ pc' = "request"
    /\ UNCHANGED <<entryVars, cwd, fs, effects, pathVars, toolVars, i, response, ci, k,
                   output, nreq, hist>>

\* genai.Client(api_key=None) is the SDK's code, called outside any try:
\* given no key it may refuse; the stub client never does.
ClientRaises ==
    /\ pc = "start"
    /\ PromptArgs(argv) # <<>>
    /\ genai /\ "GEMINI_API_KEY" \notin environ
    /\ output' = Append(output, Traceback)
    /\ status' = <<"exit", 1>>
    /\ pc' = "crashed"
    /\ UNCHANGED <<cwd, fs, effects, pathVars, toolVars, i, messages, response, ci, k,
                   nreq, hist, argv, environ, genai>>

NextEntry ==
    \/ ExitUsage
    \/ EnterLoop
    \/ ClientRaises
    \/ GenerateContent
    \/ GenerateContentRaises

SpecEntry == InitEntry /\ [][NextEntry]_vars

-----------------------------------------------------------------------------
(* Claims about the loop, checked under Spec *)

\* A pass has run to its end: the loop is about to request again or is over.
PassOver == nreq > 0 /\ ~hist.raised /\ pc \in {"request", "done"}

PrintedFinal == \E n \in 1..Len(output) : output[n][1] = "Final response:"

\* C1: at most 20 requests are ever issued; and with a backend that has
\* never raised and never returned final text without tool calls, no final
\* answer is printed and the invocation ends only after exactly 20
\* requests, with the exhaustion notice as its only outcome.
C1_ExhaustsAtMaxIters ==
    /\ nreq <= 20
    /\ (~hist.raised /\ ~hist.textNoCalls) =>
          /\ ~PrintedFinal
          /\ pc = "done" => (nreq = 20 /\ output = <<ExhaustedNotice>>)

\* C1 witness: such an invocation has ended, exhausted after 20 requests.
C1_Witness ==
    /\ pc = "done" /\ ~hist.raised /\ ~hist.textNoCalls
    /\ nreq = 20 /\ output = <<ExhaustedNotice>>

\* C2: when a pass is over whose response carried final text and no tool
\* calls (whatever candidates it carried), the loop has printed that text
\* and stopped in that pass, with no further request.
C2_FinalTextStopsLoop ==
    (PassOver /\ Truthy(response.text) /\ response.function_calls = <<>>) =>
        /\ pc = "done"
        /\ output = <<FinalNotice(response.text)>>
        /\ nreq = i + 1

\* C3: a final answer is printed only in a pass whose response carried no
\* tool calls; a pass whose response carried tool calls ran all of them and
\* ended in another request or, after the last pass, in exhaustion.
C3_NoFinalWhileToolCalls ==
    /\ PrintedFinal => response.function_calls = <<>>
    /\ (PassOver /\ response.function_calls # <<>>) =>
          /\ k = Len(response.function_calls)
          /\ Len(hist.runs) = k
          /\ output \in {<<>>, <<ExhaustedNotice>>}
          /\ pc = "done" => i = max_iters

\* C3 witness: a response with both final text and tool calls was handled
\* and the loop is about to request again.
C3_Witness ==
    /\ PassOver /\ pc = "request" /\ i < max_iters
    /\ Truthy(response.text) /\ response.function_calls # <<>>

\* C4: for a call whose name is not in the dispatch table, call_function
\* invoked no tool, touched nothing and returned the "Unknown function"
\* error; the loop appended that error to the transcript, and the
\* invocation goes on: it ends only by exhaustion.
C4_UnknownToolContinues ==
    (nreq > 0 /\ ~hist.raised) =>
        \A j \in 1..Len(hist.runs) :
            LET name == response.function_calls[j].name
                run == hist.runs[j]
                err == <<"error", <<"Unknown function: ", name>>>>
            IN  name \notin dispatch =>
                    /\ run.invoked = NONE
                    /\ run.effects = {}
                    /\ run.returned = ToolContent(name, err)
                    /\ messages[run.at + 1] = Content("user", name, err)
                    /\ pc = "done" => output = <<ExhaustedNotice>>

\* C4 witness: a call of the undeclared delete_file was handled and the
\* loop is about to request again.
C4_Witness ==
    /\ PassOver /\ pc = "request" /\ i < max_iters
    /\ Len(hist.runs) >= 1
    /\ response.function_calls[1].name = "delete_file"

\* C5: once generate_content has raised, the invocation is over in that
\* pass with the error notice as its only outcome (no exhaustion notice),
\* the transcript is the one that request was sent, and from then on no
\* request is made, no tool touches anything and nothing is appended.
C5_TransportAbort ==
    /\ [](hist.raised =>
            /\ pc = "done"
            /\ output = <<ErrorNotice>>
            /\ messages = hist.sent
            /\ nreq = i + 1)
    /\ [][hist.raised => UNCHANGED <<messages, nreq, effects, fs, output>>]_vars

\* C5 witness: generate_content raised in a later pass, after tool
\* results had been appended.
C5_Witness ==
    /\ hist.raised /\ nreq > 1 /\ Len(hist.runs) > 0

\* The candidates of the response that have content, in order.
TurnsOf(cands) == SelectSeq(cands, LAMBDA c : c.content # <<>>)

\* C10: in a pass, tool calls start only after every candidate was
\* handled; call j was invoked when the transcript held the pass's model
\* turns and the results of calls 1..j-1, and its result is the next turn;
\* so the results stand in the transcript in the order of the requests,
\* after the model's turns.
C10_CallsInOrder ==
    nreq > 0 =>
        LET calls == response.function_calls
            turns == TurnsOf(response.candidates)
            seen == TurnsOf(SubSeq(response.candidates, 1, ci))
        IN  /\ Len(hist.runs) = k
            /\ k > 0 => ci = Len(response.candidates)
            /\ Len(messages) = hist.passStart + Len(seen) + k
            /\ \A n \in 1..Len(seen) : messages[hist.passStart + n] = seen[n].content[1]
            /\ \A j \in 1..k :
                  /\ hist.runs[j].at = hist.passStart + Len(turns) + (j - 1)
                  /\ messages[hist.runs[j].at + 1]
                        = Content("user", calls[j].name, hist.runs[j].returned.response)
                  /\ hist.runs[j].returned.name = calls[j].name

\* C10 witness: a pass with a model turn and two different calls has run
\* both calls.
C10_Witness ==
    /\ nreq > 0 /\ k = 2
    /\ response.candidates # <<>>
    /\ response.function_calls[1].name # response.function_calls[2].name

\* A turn that carries a function response (a tool's result or error).
IsResultTurn(m) == m.response[1] \in {"result", "error"}

\* C11 as stated: every tool result in the transcript is a turn of role
\* "tool", and the initial prompt is the only turn of role "user".
C11_ResultTurnsRoleTool ==
    \A n \in 1..Len(messages) :
        /\ IsResultTurn(messages[n]) => messages[n].role = "tool"
        /\ messages[n].role = "user" => n = 1

\* C11 amended: call_function returns a Content of role "tool", but the
\* loop unwraps its function response and appends it as a turn of role
\* "user" under the call's name; so every tool result in the transcript
\* has role "user", no turn has role "tool", and the first turn is the
\* initial prompt.
C11_ResultTurnsRoleUser ==
    /\ messages[1] = UserPrompt
    /\ \A n \in 1..Len(messages) :
          /\ messages[n].role # "tool"
          /\ IsResultTurn(messages[n]) => (n > 1 /\ messages[n].role = "user")
    /\ \A j \in 1..Len(hist.runs) :
          /\ hist.runs[j].returned.role = "tool"
          /\ IsResultTurn(messages[hist.runs[j].at + 1])
          /\ messages[hist.runs[j].at + 1].role = "user"
          /\ messages[hist.runs[j].at + 1].response = hist.runs[j].returned.response

\* C11 witness: the transcript holds the result of a tool that ran and the
\* error of an undeclared tool.
C11_Witness ==
    /\ \E n \in 1..Len(messages) : messages[n].response[1] = "result"
    /\ \E n \in 1..Len(messages) : messages[n].response[1] = "error"

\* s is a prefix of t.
IsPrefix(s, t) == Len(s) <= Len(t) /\ SubSeq(t, 1, Len(s)) = s

\* C12: every step of the loop leaves the transcript it found as a prefix
\* of the new one, growing it by at most one turn (nothing is removed,
\* replaced or reordered); and a step that makes a model request sends
\* the whole transcript accumulated so far and does not change it.
C12_AppendOnly ==
    [][/\ IsPrefix(messages, messages')
       /\ Len(messages') <= Len(messages) + 1
       /\ nreq' # nreq => (hist'.sent = messages /\ messages' = messages)]_vars

\* C12 witness: a later request was sent a transcript holding the prompt,
\* a model turn and a tool result.
C12_Witness ==
    /\ nreq >= 2 /\ pc # "request"
    /\ hist.sent = messages
    /\ \E n \in 1..Len(hist.sent) : hist.sent[n].role = "model"
    /\ \E n \in 1..Len(hist.sent) : IsResultTurn(hist.sent[n])

\* C13: call_function hands every call back as a Content with a function
\* response (no exception leaves it); for a registered tool whose
\* arguments do not bind (a required one missing, or a name the tool does
\* not have) the tool is not entered, nothing is touched and the result is
\* "Error during execution: ..."; the loop appended that result, did not
\* crash, and goes on: the invocation ends only by exhaustion.
C13_ToolExceptionsCaught ==
    nreq > 0 =>
        \A j \in 1..Len(hist.runs) :
            LET part == response.function_calls[j]
                run == hist.runs[j]
                err == <<"result", <<"Error during execution: ", "TypeError">>>>
            IN  /\ HasFunctionResponse(run.returned)
                /\ (part.name \in dispatch
                        /\ ~Binds(part.name, ForceWorkingDirectory(part.args))) =>
                      /\ run.returned = ToolContent(part.name, err)
                      /\ run.invoked = NONE
                      /\ run.effects = {}
                      /\ messages[run.at + 1] = Content("user", part.name, err)
                      /\ pc # "crashed"
                      /\ pc = "done" => output \in {<<ExhaustedNotice>>, <<ErrorNotice>>}

\* C13 witness: a get_files_info call with an argument named bogus was
\* handled and the loop is about to request again.
C13_Witness ==
    /\ PassOver /\ pc = "request" /\ i < max_iters
    /\ Len(hist.runs) = 1
    /\ response.function_calls[1].name = "get_files_info"
    /\ "bogus" \in Keys(response.function_calls[1].args)

\* The three controlled outcomes.
Outcomes == {<<ErrorNotice>>, <<ExhaustedNotice>>} \cup {<<FinalNotice(t)>> : t \in {Str_hi}}

\* The most steps one pass takes: the request, one per candidate, one per
\* call, and the test for the final answer.
PassSteps ==
    LET longest(lists) == CHOOSE n \in {Len(l) : l \in lists} :
                              \A l \in lists : Len(l) <= n
    IN  2 + longest(CandidateLists) + longest(CallLists)

\* A bound on the steps the invocation has left.
StepsLeft ==
    IF pc \in {"done", "crashed"} THEN 0
    ELSE IF pc = "request" THEN (max_iters - i) * PassSteps + 1
    ELSE (max_iters - i - 1) * PassSteps + 2
            + (Len(response.candidates) - ci) + (Len(response.function_calls) - k)

C20_OneResultPerCall ==
    PassOver =>
        LET calls == response.function_calls
            turns == TurnsOf(response.candidates)
            base == hist.passStart + Len(turns)
            grown == SubSeq(messages, hist.passStart + 1, Len(messages))
        IN  /\ Len(messages) = hist.passStart + Len(turns) + Len(calls)
            /\ Len(hist.runs) = Len(calls)
            /\ Len(SelectSeq(grown, IsResultTurn)) = Len(calls)
            /\ \A j \in 1..Len(calls) :
                  /\ messages[base + j].name = calls[j].name
                  /\ messages[base + j].response[1] \in {"result", "error"}
                  /\ messages[base + j].response = hist.runs[j].returned.response

\* C20 witness: a pass is over whose response had a candidate without
\* content, one with content, and two tool calls, one of them failing.
C20_Witness ==
    /\ PassOver
    /\ response.candidates = <<NoContent, ModelTurn>>
    /\ response.function_calls = <<P_unknown, P_write>>

-----------------------------------------------------------------------------
(* Claims about the entry point, checked under SpecEntry *)

\* C17: once main() is past its start, if no prompt was supplied or
\* GEMINI_API_KEY is not set, the process has exited with a non-zero
\* status after printing the usage message and nothing else, and no model
\* request was made.
C17_ExitsWithoutPromptOrKey ==
    (pc # "start" /\ (PromptArgs(argv) = <<>> \/ "GEMINI_API_KEY" \notin environ)) =>
        /\ status # NONE /\ status[2] # 0
        /\ output = <<UsageNotice>>
        /\ nreq = 0

-----------------------------------------------------------------------------
(* Claims about the path sandbox, checked under SpecPath *)

\* C8: _safe_resolve(path, "./calculator") returns the normalized join of
\* the root and path exactly when that path denotes the root or something
\* below it (component-wise, i.e. equal to the root or the root followed by
\* the separator), and raises ValueError otherwise; so traversal, absolute
\* paths outside the root and the sibling calculator2 are rejected, and ""
\* and "." give the root itself, whatever exists in the filesystem.
C8_SafeResolveExact ==
    (resolved # NONE /\ pathArg # NONE) =>
        LET root == RootOf(cwd)
            want == Denoted(pathArg, root)
            inside == ~DoubleSlash(pathArg) /\ IsCompPrefix(CompsOf(root), want)
        IN  /\ IF inside THEN resolved = <<"ok", Abs(want)>>
                         ELSE resolved = <<"ValueError", "Path escapes working directory">>
            /\ pathArg \in {<<>>, DOT} => resolved = <<"ok", root>>
            /\ pathArg \in {Join(<<DOTDOT, DOTDOT, Str_x>>),
                            Join(<<DOTDOT, calculator2, Str_x>>),
                            Abs(<<Str_x>>)} => resolved[1] = "ValueError"

\* C8 witness: the sibling ../calculator2/x, whose resolution has the
\* root's path as a string prefix, was resolved and rejected.
C8_Witness ==
    /\ pathArg = Join(<<DOTDOT, calculator2, Str_x>>)
    /\ resolved = <<"ValueError", "Path escapes working directory">>

\* C9: get_files_info(directory) of functions/get_files_info.py answers
\* every directory that denotes a place outside the base directory (the
\* process's working directory) with the "outside the working directory"
\* error and lists nothing.
C9_GetFilesInfoConfined ==
    LET arg == IF pathArg \in {NONE, <<>>} THEN DOT ELSE pathArg
        outside == \/ DoubleSlash(arg)
                   \/ ~IsCompPrefix(CompsOf(cwd), Denoted(arg, cwd))
    IN  (info # NONE /\ outside) =>
            /\ info = <<"error", "Requested directory is outside the working directory.">>
            /\ effects = {}

-----------------------------------------------------------------------------
(* Claims about call_function and the tools, checked under SpecTools *)

\* The path a call asks its tool to work on.
RequestedPath(part) ==
    IF part.name = "get_files_info"
    THEN IF "directory" \in Keys(part.args) THEN Get(part.args, "directory") ELSE DOT
    ELSE Get(part.args, "file_path")

\* That path denotes a place outside the working root.
RequestsOutside(part, dir) ==
    LET path == RequestedPath(part)
    IN  /\ path # NONE
        /\ \/ DoubleSlash(path)
           \/ ~IsCompPrefix(CompsOf(RootOf(dir)), Denoted(path, RootOf(dir)))

\* C6: whenever call_function invokes a registered tool, the arguments it
\* passes hold exactly one working_directory and it is "./calculator",
\* also when the model's argument map had a working_directory of its own.
C6_WorkingDirectoryForced ==
    (ncalls > 0 /\ lastRun.invoked # NONE) =>
        /\ {item \in lastRun.invoked[2] : item[1] = "working_directory"}
              = {<<"working_directory", WORKING_DIRECTORY>>}
        /\ lastRun.invoked[1] = lastCall.name

\* C6 witness: a registered tool was invoked for a call whose arguments
\* carried working_directory = "/".
C6_Witness ==
    /\ ncalls > 0
    /\ <<"working_directory", <<SEP>>>> \in lastCall.args
    /\ lastRun.invoked # NONE

\* C7: every directory listed or made, every file read, written or
\* executed so far lies at or below the working root, and a subprocess
\* runs with the root as its directory; and a call whose path denotes a
\* place outside the root returned the "Path escapes working directory"
\* error, changed nothing in the filesystem and spawned nothing.
C7_ToolsConfined ==
    /\ \A e \in effects :
          /\ IsCompPrefix(CompsOf(RootOf(cwd)), CompsOf(e[2]))
          /\ ~DoubleSlash(e[2])
          /\ e[1] = "exec" => e[3] = RootOf(cwd)
    /\ (ncalls > 0 /\ lastRun.invoked # NONE /\ RequestsOutside(lastCall, cwd)) =>
          /\ lastRun.content.response
                = <<"result", <<"Error: ", "Path escapes working directory">>>>
          /\ lastRun.effects = {}
          /\ ~lastRun.mutated

\* C7 witness: write_file was invoked for the sibling ../calculator2/x.
C7_Witness ==
    /\ ncalls > 0
    /\ lastCall.name = "write_file"
    /\ <<"file_path", Join(<<DOTDOT, calculator2, Str_x>>)>> \in lastCall.args
    /\ lastRun.invoked # NONE
    /\ ~lastRun.mutated

\* C16: a run_python_file call whose path is null, escapes the root, or
\* names nothing or something that is not a regular file returned an error
\* and spawned nothing; a call whose path names a regular file inside the
\* root spawned exactly one subprocess, on that file; and every subprocess
\* spawned so far ran a regular file at or below the root with the root as
\* its current directory.
C16_RunOnlyExistingFiles ==
    /\ \A e \in effects :
          e[1] = "exec" =>
              /\ IsFile(fs, e[2])
              /\ IsCompPrefix(CompsOf(RootOf(cwd)), CompsOf(e[2]))
              /\ e[3] = RootOf(cwd)
    /\ (ncalls > 0 /\ lastCall.name = "run_python_file" /\ lastRun.invoked # NONE) =>
          LET path == Get(lastCall.args, "file_path")
              target == Abs(Denoted(path, RootOf(cwd)))
              tagged == lastRun.content.response[2][1]
          IN  IF path = NONE
              THEN lastRun.effects = {} /\ tagged = "Error: "
              ELSE IF RequestsOutside(lastCall, cwd)
              THEN /\ lastRun.effects = {}
                   /\ lastRun.content.response[2]
                         = <<"Error: ", "Path escapes working directory">>
              ELSE IF ~IsFile(fs, target)
              THEN /\ lastRun.effects = {}
                   /\ lastRun.content.response[2] = <<"Error: file not found: ", path>>
              ELSE lastRun.effects = {<<"exec", target, RootOf(cwd)>>}

\* C16 witness: run_python_file was called on a/x, which does not exist.
C16_Witness ==
    /\ ncalls > 0
    /\ lastCall.name = "run_python_file"
    /\ <<"file_path", Join(<<Str_a, Str_x>>)>> \in lastCall.args
    /\ lastRun.invoked # NONE
    /\ ~Exists(fs, RootOf(cwd) \o <<SEP>> \o Join(<<Str_a, Str_x>>))

\* The direct children of the directory target.
Children(f, target) ==
    {p \in DOMAIN f : /\ IsCompPrefix(CompsOf(target), CompsOf(p))
                      /\ Len(CompsOf(p)) = Len(CompsOf(target)) + 1}

\* C18: a get_files_info call on a directory that exists inside the root
\* returned one entry per direct child and no other, in ascending order of
\* name, a file's entry giving "file" and its size and a directory's
\* "dir" ("(empty)" when there is no child); on a path inside the root
\* that names nothing it returned the "directory not found" error.
C18_ListingSortedAndTagged ==
    (/\ ncalls > 0 /\ lastCall.name = "get_files_info" /\ lastRun.invoked # NONE
     /\ RequestedPath(lastCall) # NONE /\ ~RequestsOutside(lastCall, cwd)) =>
        LET path == RequestedPath(lastCall)
            target == Abs(Denoted(path, RootOf(cwd)))
            kids == Children(fs, target)
            result == lastRun.content.response[2]
            es == result[2]
        IN  /\ lastRun.content.response[1] = "result"
            /\ ~Exists(fs, target) => result = <<"Error: directory not found: ", path>>
            /\ (IsDir(fs, target) /\ kids = {}) => result = <<"(empty)">>
            /\ (IsDir(fs, target) /\ kids # {}) =>
                  /\ result[1] = "entries"
                  /\ Len(es) = Cardinality(kids)
                  /\ \A n \in 1..Len(es) :
                        LET p == target \o <<SEP>> \o es[n][1]
                        IN  /\ p \in kids
                            /\ IF IsFile(fs, p)
                               THEN es[n] = <<es[n][1], "file", Len(fs[p][2])>>
                               ELSE es[n] = <<es[n][1], "dir">>
                  /\ \A n \in 1..Len(es) : \A m \in 1..Len(es) :
                        n < m => StrLess(es[n][1], es[m][1])

\* C18 witness: a listing of the root returned at least three entries,
\* a file's and a directory's among them.
C18_Witness ==
    /\ ncalls > 0 /\ lastCall.name = "get_files_info" /\ lastRun.invoked # NONE
    /\ lastRun.content.response[2][1] = "entries"
    /\ LET es == lastRun.content.response[2][2]
       IN  /\ Len(es) >= 3
           /\ \E n \in 1..Len(es) : es[n][2] = "file"
           /\ \E n \in 1..Len(es) : es[n][2] = "dir"

\* C19 as stated: after call_function returns, the request's own args
\* mapping holds working_directory, set to the fixed root.
C19_ArgsMapMutated ==
    ncalls > 0 => <<"working_directory", WORKING_DIRECTORY>> \in lastCall.args

\* C19 amended: call_function injects the working directory into a copy
\* of the request's args mapping: the tool is invoked with the copy, that
\* is the request's args with working_directory set to the fixed root,
\* while the request's own mapping is after the call exactly what it was
\* before, without a working_directory if it came without one and with
\* the caller's own value if it came with one.
C19_ArgsMapCopied ==
    ncalls > 0 =>
        /\ lastCall.args = lastRun.given
        /\ lastRun.invoked # NONE =>
              lastRun.invoked[2] = ForceWorkingDirectory(lastRun.given)
        /\ lastRun.invoked # NONE =>
              <<"working_directory", WORKING_DIRECTORY>> \in lastRun.invoked[2]

\* C19 witness: a tool was invoked for a request that came with a
\* file_path and without a working_directory.
C19_Witness ==
    /\ ncalls > 0 /\ lastRun.invoked # NONE
    /\ "working_directory" \notin Keys(lastCall.args)
    /\ "file_path" \in Keys(lastCall.args)

-----------------------------------------------------------------------------
(* Claims about a write followed by a read, checked under SpecRoundTrip *)

\* The proper ancestors of an absolute normalized path.
RECURSIVE Ancestors(_)
Ancestors(p) == IF DirName(p) = p THEN {} ELSE {DirName(p)} \cup Ancestors(DirName(p))

\* C15: for a path that resolves inside the working root and is not the
\* root (nor an existing directory, nor below a regular file) and any
\* content, present, null or left out, write_file reports the write, the
\* file and its parent directories exist afterwards, and the read that
\* follows returns exactly the content, "" for a null or omitted one.
C15_WriteReadRoundTrip ==
    LET r == _safe_resolve(pathArg, WORKING_DIRECTORY, cwd)
        content == IF "content" \in Keys(lastCall.args)
                   THEN OrEmpty(Get(lastCall.args, "content")) ELSE <<>>
    IN  (/\ ncalls = 2
         /\ r[1] = "ok" /\ r[2] # RootOf(cwd)
         /\ ~IsDir(fs, r[2])
         /\ \A a \in Ancestors(r[2]) : ~IsFile(fs, a)) =>
            /\ lastRun.content.response
                  = <<"result", <<"Wrote ", Len(content), " bytes to ", pathArg>>>>
            /\ IsFile(fs, r[2])
            /\ \A a \in Ancestors(r[2]) : IsDir(fs, a)
            /\ info = <<"result", <<"text", content>>>>

=============================================================================
